---- MODULE Spec2Model ----
(***************************************************************************)
(* Model of app.py: the segregation-ratio catalog, test_segregation,       *)
(* compare_models, and the Shiny server's reactive handlers                *)
(* (observed_counts, result_ui, graph).                                    *)
(*                                                                         *)
(* Numbers.  numpy's float64 values are modelled as exact rationals        *)
(* [nan, n, d] in lowest terms, plus NaN.  Every catalog ratio sums to 4   *)
(* or 16, so ratios / sum * total is exact in float64 as well.             *)
(*                                                                         *)
(* p-values.  scipy's chisquare returns p = chi2.sf(stat, k - 1).  A       *)
(* p-value is modelled as the pair (df, stat) it is the image of, and is   *)
(* compared the way chi2.sf orders it: for one df, sf is strictly          *)
(* decreasing in stat, sf(0) = 1, and sf(stat) < 0.05 exactly when stat    *)
(* exceeds the 5% critical value of that df.                               *)
(***************************************************************************)
EXTENDS Integers, Sequences, FiniteSets, TLC

VARIABLES
    models,     \* the module-level dict `models`, in insertion order
    seed,       \* this process's string-hash seed: the order a set iterates in
    counts,     \* input.counts(): the text area, as its lines
    uiOut,      \* what result_ui last rendered
    figOut,     \* what graph last rendered
    call,       \* the latest direct invocation of the core and its result
    shown,      \* history: one earlier observed_counts() outcome
    earlier     \* history: one earlier compare_models invocation

vars == <<models, seed, counts, uiOut, figOut, call, shown, earlier>>

-----------------------------------------------------------------------------
(* Bounds of the model *)

\* longest pasted text, in lines
MaxLines == 7
\* largest total of a directly passed observed sequence
MaxTotal == 4
\* longest directly passed observed sequence
MaxClasses == 4

-----------------------------------------------------------------------------
(* float64 arithmetic, as exact rationals with NaN *)

RECURSIVE Gcd(_, _)
Gcd(a, b) == IF b = 0 THEN a ELSE Gcd(b, a % b)

Abs(x) == IF x < 0 THEN -x ELSE x

NaN == [nan |-> TRUE, n |-> 0, d |-> 1]

Frac(n, d) ==
    LET g == Gcd(Abs(n), d)
    IN  [nan |-> FALSE, n |-> n \div g, d |-> d \div g]

FromInt(i) == [nan |-> FALSE, n |-> i, d |-> 1]

Lcm(a, b) == (a \div Gcd(a, b)) * b

FAdd(x, y) ==
    IF x.nan \/ y.nan THEN NaN
    ELSE LET m == Lcm(x.d, y.d)
         IN  Frac(x.n * (m \div x.d) + y.n * (m \div y.d), m)

FSub(x, y) ==
    IF x.nan \/ y.nan THEN NaN
    ELSE LET m == Lcm(x.d, y.d)
         IN  Frac(x.n * (m \div x.d) - y.n * (m \div y.d), m)

FMul(x, y) ==
    IF x.nan \/ y.nan THEN NaN
    ELSE LET g1 == Gcd(Abs(x.n), y.d)
             g2 == Gcd(Abs(y.n), x.d)
         IN  Frac((x.n \div g1) * (y.n \div g2), (x.d \div g2) * (y.d \div g1))

\* 0/0 is NaN.  x/0 with x # 0 (inf) does not arise here: the only divisor
\* that can be 0 is f_exp[i], which is 0 only when the total is 0, and then
\* the dividend (f_obs[i] - f_exp[i])^2 is 0 as well.
FDiv(x, y) ==
    IF x.nan \/ y.nan \/ y.n = 0 THEN NaN
    ELSE LET s == IF y.n < 0 THEN -1 ELSE 1
         IN  FMul(x, [nan |-> FALSE, n |-> s * y.d, d |-> Abs(y.n)])

\* x < y on floats; False when either is NaN
FLt(x, y) ==
    /\ ~x.nan
    /\ ~y.nan
    /\ LET m == Lcm(x.d, y.d)
       IN  x.n * (m \div x.d) < y.n * (m \div y.d)

RECURSIVE SumInt(_)
SumInt(s) == IF s = <<>> THEN 0 ELSE Head(s) + SumInt(Tail(s))

RECURSIVE SumF(_)
SumF(s) == IF s = <<>> THEN FromInt(0) ELSE FAdd(Head(s), SumF(Tail(s)))

-----------------------------------------------------------------------------
(* scipy.stats.chisquare *)

\* chi2.sf(stat, df): the p-value, kept as the (df, stat) it is the image of
Sf(stat, df) ==
    IF stat.nan THEN [nan |-> TRUE, df |-> df, n |-> 0, d |-> 1]
    ELSE [nan |-> FALSE, df |-> df, n |-> stat.n, d |-> stat.d]

\* p > q: sf is strictly decreasing in stat; False when either is NaN.
\* Only p-values of one df are ever compared (compare_models compares the
\* candidates of one length).
PGt(p, q) ==
    /\ ~p.nan
    /\ ~q.nan
    /\ p.df = q.df
    /\ FLt(Frac(p.n, p.d), Frac(q.n, q.d))

\* the p-value is exactly 1.0: sf(stat) = 1 only at stat = 0
PIsOne(p) == ~p.nan /\ p.n = 0

\* 5% critical values chi2.isf(0.05, df), in units of 1/CritScale, rounded up:
\* 3.841458820694124, 5.991464547107979, 7.814727903251179
CritScale == 100000
Crit1 == 384146
Crit2 == 599146
Crit3 == 781473
CritValue(df) ==
    CASE df = 1 -> Crit1
      [] df = 2 -> Crit2
      [] df = 3 -> Crit3

\* stat * CritScale >= c, without forming stat.n * CritScale
StatAtLeast(p, c) ==
    LET q  == p.n \div p.d
        r  == p.n % p.d
        cq == c \div CritScale
        cr == c % CritScale
    IN  \/ q > cq
        \/ q = cq /\ r * CritScale >= cr * p.d

\* p < 0.05 : stat lies beyond the critical value.  (The critical values are
\* irrational and stat is rational, so p = 0.05 exactly does not occur.)
PLtAlpha(p) == ~p.nan /\ StatAtLeast(p, CritValue(p.df))

\* p >= 0.05
PGeAlpha(p) == ~p.nan /\ ~StatAtLeast(p, CritValue(p.df))

\* chisquare(f_obs, f_exp): terms = (f_obs - f_exp)**2 / f_exp, their sum,
\* and chi2.sf of it with len - 1 degrees of freedom
chisquare(f_obs, f_exp) ==
    LET terms == [i \in 1..Len(f_obs) |->
                    LET diff == FSub(FromInt(f_obs[i]), f_exp[i])
                    IN  FDiv(FMul(diff, diff), f_exp[i])]
        stat  == SumF(terms)
    IN  [chi_stat |-> stat, p_value |-> Sf(stat, Len(f_obs) - 1)]

-----------------------------------------------------------------------------
(* The catalog and the core *)

ModelsLiteral ==
    << [name |-> "3:1",     ratio |-> <<3, 1>>],
       [name |-> "1:2:1",   ratio |-> <<1, 2, 1>>],
       [name |-> "1:1:1:1", ratio |-> <<1, 1, 1, 1>>],
       [name |-> "9:3:3:1", ratio |-> <<9, 3, 3, 1>>],
       [name |-> "12:3:1",  ratio |-> <<12, 3, 1>>],
       [name |-> "9:7",     ratio |-> <<9, 7>>],
       [name |-> "15:1",    ratio |-> <<15, 1>>],
       [name |-> "9:3:4",   ratio |-> <<9, 3, 4>>],
       [name |-> "13:3",    ratio |-> <<13, 3>>],
       [name |-> "9:6:1",   ratio |-> <<9, 6, 1>> ] >>

\* descending insertion sort
RECURSIVE InsertDesc(_, _)
InsertDesc(v, s) ==
    IF s = <<>> THEN <<v>>
    ELSE IF v >= Head(s) THEN <<v>> \o s
         ELSE <<Head(s)>> \o InsertDesc(v, Tail(s))

RECURSIVE SortDesc(_)
SortDesc(s) == IF s = <<>> THEN <<>> ELSE InsertDesc(Head(s), SortDesc(Tail(s)))

\* variant of test_segregation that sorts observed and ratios by magnitude
\* before pairing them
test_segregation_sorted(observed, ratios) ==
    LET obs      == SortDesc(observed)
        rat      == SortDesc(ratios)
        total    == SumInt(obs)
        rsum     == SumInt(rat)
        expected == [i \in 1..Len(rat) |->
                        FMul(FDiv(FromInt(rat[i]), FromInt(rsum)),
                             FromInt(total))]
        chi      == chisquare(obs, expected)
    IN  [observed        |-> obs,
         expected        |-> expected,
         chi_square_stat |-> chi.chi_stat,
         p_value         |-> chi.p_value,
         best_fit_ratio  |-> rat]

test_segregation(observed, ratios) ==
    LET total    == SumInt(observed)
        rsum     == SumInt(ratios)
        expected == [i \in 1..Len(ratios) |->
                        FMul(FDiv(FromInt(ratios[i]), FromInt(rsum)),
                             FromInt(total))]
        chi      == chisquare(observed, expected)
    IN  [observed        |-> observed,
         expected        |-> expected,
         chi_square_stat |-> chi.chi_stat,
         p_value         |-> chi.p_value,
         best_fit_ratio  |-> ratios]

None == [none |-> TRUE]
IsNone(r) == "none" \in DOMAIN r

\* result['model'] = name
WithModel(result, name) ==
    [model           |-> name,
     observed        |-> result.observed,
     expected        |-> result.expected,
     chi_square_stat |-> result.chi_square_stat,
     p_value         |-> result.p_value,
     best_fit_ratio  |-> result.best_fit_ratio]

\* the loop of compare_models over the first k catalog entries
RECURSIVE ResultsUpTo(_, _, _)
ResultsUpTo(catalog, observed_counts, k) ==
    IF k = 0 THEN <<>>
    ELSE LET prev == ResultsUpTo(catalog, observed_counts, k - 1)
             m    == catalog[k]
         IN  IF Len(m.ratio) = Len(observed_counts)
             THEN Append(prev, WithModel(
                      test_segregation(observed_counts, m.ratio), m.name))
             ELSE prev

\* variant of max that also replaces the running maximum on an equal key
RECURSIVE PyMaxLast(_, _)
PyMaxLast(best, rest) ==
    IF rest = <<>> THEN best
    ELSE IF \/ PGt(Head(rest).p_value, best.p_value)
            \/ Head(rest).p_value = best.p_value /\ ~best.p_value.nan
         THEN PyMaxLast(Head(rest), Tail(rest))
         ELSE PyMaxLast(best, Tail(rest))

\* max(results, key=lambda x: x['p_value']): the running maximum is replaced
\* only by an item whose key compares greater
RECURSIVE PyMax(_, _)
PyMax(best, rest) ==
    IF rest = <<>> THEN best
    ELSE IF PGt(Head(rest).p_value, best.p_value)
         THEN PyMax(Head(rest), Tail(rest))
         ELSE PyMax(best, Tail(rest))

compare_models(observed_counts) ==
    LET results == ResultsUpTo(models, observed_counts, Len(models))
    IN  IF results = <<>> THEN None
        ELSE PyMax(Head(results), Tail(results))

-----------------------------------------------------------------------------
(* The Shiny server: text in, report and chart out *)

Labels == {"a", "b"}

\* lines of the text area, as strings of characters
PlainLines  == {<<"a">>, <<"b">>}
PaddedLines == {<<>>, <<" ", "a", " ">>}

IsSpace(c) == c = " "

\* str.strip(): drop leading and trailing whitespace
RECURSIVE LStrip(_)
LStrip(x) == IF x # <<>> /\ IsSpace(Head(x)) THEN LStrip(Tail(x)) ELSE x

RECURSIVE RStrip(_)
RStrip(x) ==
    IF x # <<>> /\ IsSpace(x[Len(x)]) THEN RStrip(SubSeq(x, 1, Len(x) - 1))
    ELSE x

strip(x) == RStrip(LStrip(x))

\* a stripped one-character line as its label
LabelOf(x) == x[1]

\* [x.strip() for x in lines if x.strip()]
RECURSIVE Phenotypes(_)
Phenotypes(lines) ==
    IF lines = <<>> THEN <<>>
    ELSE IF strip(Head(lines)) # <<>>
         THEN <<LabelOf(strip(Head(lines)))>> \o Phenotypes(Tail(lines))
         ELSE Phenotypes(Tail(lines))

\* list.count
RECURSIVE Count(_, _)
Count(s, v) ==
    IF s = <<>> THEN 0
    ELSE (IF Head(s) = v THEN 1 ELSE 0) + Count(Tail(s), v)

Range(s) == {s[i] : i \in 1..Len(s)}

\* the orders a set of strings can iterate in: one per hash seed
Seeds == {s \in [1..Cardinality(Labels) -> Labels] : Range(s) = Labels}

\* iteration over set(...): the members, in the order the process's string
\* hashing puts them (hash collisions, which also let insertion order show,
\* are left out)
RECURSIVE Filter(_, _)
Filter(s, S) ==
    IF s = <<>> THEN <<>>
    ELSE IF Head(s) \in S THEN <<Head(s)>> \o Filter(Tail(s), S)
         ELSE Filter(Tail(s), S)

SetIter(S) == Filter(seed, S)

\* observed_counts(): (counts, list(unique_phenotypes)); nothing in the try
\* block raises for a str input
observed_counts ==
    LET phenotypes        == Phenotypes(counts)
        unique_phenotypes == SetIter(Range(phenotypes))
    IN  [counts  |-> [i \in 1..Len(unique_phenotypes) |->
                        Count(phenotypes, unique_phenotypes[i])],
         uniques |-> unique_phenotypes]

\* the interpretation sentence chosen at lines 90-93
interpretation(result) ==
    IF PLtAlpha(result.p_value) THEN "consistent with the best fit model"
    ELSE "No model explains"

\* the condition under which the chart card and explanations are appended
add_graph(result) == PGeAlpha(result.p_value)

result_ui ==
    LET oc == observed_counts
    IN  IF oc.counts = <<>>
        THEN [kind |-> "p", text |-> "Please enter valid phenotypic values",
              model |-> "", card |-> FALSE]
        ELSE LET result == compare_models(oc.counts)
             IN  IF IsNone(result)
                 THEN [kind |-> "p",
                       text |-> "No model matches the length of the observed data",
                       model |-> "", card |-> FALSE]
                 ELSE [kind  |-> "report",
                       text  |-> interpretation(result),
                       model |-> result.model,
                       card  |-> add_graph(result)]

EmptyFigure == [kind |-> "figure", data |-> <<>>]

\* variant of graph's condition that tests p < 0.05 as line 90 does
draw_bars_below(result) == IsNone(result) \/ PLtAlpha(result.p_value)

\* the condition under which graph() builds the two bar traces
draw_bars(result) == IsNone(result) \/ PGeAlpha(result.p_value)

graph ==
    LET oc == observed_counts
    IN  IF oc.counts = <<>> THEN EmptyFigure
        ELSE LET result == compare_models(oc.counts)
             IN  IF draw_bars(result)
                 THEN IF IsNone(result)
                      THEN \* result['observed'] on None
                           [kind |-> "TypeError", data |-> <<>>]
                      ELSE [kind |-> "figure",
                            data |-> << [name |-> "Observed",
                                         x |-> oc.uniques,
                                         y |-> result.observed],
                                        [name |-> "Expected",
                                         x |-> oc.uniques,
                                         y |-> result.expected] >>]
                 ELSE EmptyFigure

-----------------------------------------------------------------------------
(* Inputs *)

ObservedSeqs ==
    {o \in UNION {[1..k -> 0..MaxTotal] : k \in 1..MaxClasses} :
        SumInt(o) <= MaxTotal}

\* ratios test_segregation is called with: the catalog's, and two whose sum
\* is not a power of two
RatioSeqs == {m.ratio : m \in Range(ModelsLiteral)} \cup {<<1, 2>>, <<1, 1, 1>>}

NoCall == [op |-> "none", observed |-> <<>>, ratios |-> <<>>, result |-> None]
NoShown == [labels |-> {}, order |-> <<>>]
NoEarlier == [set |-> FALSE, observed |-> <<>>, result |-> None]

-----------------------------------------------------------------------------
(* The application: Spec *)

\* process start: the catalog is built, a hash seed is drawn, a session opens
\* on an empty text area and neither output has rendered yet
Init ==
    /\ models = ModelsLiteral
    /\ seed \in Seeds
    /\ counts = <<>>
    /\ uiOut = [kind |-> "pending", text |-> "", model |-> "", card |-> FALSE]
    /\ figOut = [kind |-> "pending", data |-> <<>>]
    /\ call = NoCall
    /\ shown = NoShown
    /\ earlier = NoEarlier

PendingUi  == [kind |-> "pending", text |-> "", model |-> "", card |-> FALSE]
PendingFig == [kind |-> "pending", data |-> <<>>]

Flushed == uiOut # PendingUi /\ figOut # PendingFig

\* the user adds a line to the text area: input.counts changes, which
\* invalidates observed_counts and with it both outputs.  (To keep the texts
\* few, a blank or padded line is typed only as the first line.)
TypeLine(line) ==
    /\ Flushed
    /\ Len(counts) < MaxLines
    /\ line \in PaddedLines => counts = <<>>
    /\ counts' = Append(counts, line)
    /\ uiOut' = PendingUi
    /\ figOut' = PendingFig
    /\ UNCHANGED <<models, seed, call, shown, earlier>>

\* the user empties the text area
ClearText ==
    /\ Flushed
    /\ counts # <<>>
    /\ counts' = <<>>
    /\ uiOut' = PendingUi
    /\ figOut' = PendingFig
    /\ UNCHANGED <<models, seed, call, shown, earlier>>

\* the flush runs result_ui; the history may keep what observed_counts returned
Render_result_ui ==
    /\ uiOut = PendingUi
    /\ uiOut' = result_ui
    /\ \/ shown' = shown
       \/ shown' = [labels |-> Range(observed_counts.uniques),
                    order  |-> observed_counts.uniques]
    /\ UNCHANGED <<models, seed, counts, figOut, call, earlier>>

\* the flush runs graph
Render_graph ==
    /\ figOut = PendingFig
    /\ figOut' = graph
    /\ UNCHANGED <<models, seed, counts, uiOut, call, shown, earlier>>

\* the process is started again: module level runs anew, with a new hash
\* seed, and a session opens on an empty text area
Restart ==
    /\ Flushed
    /\ models' = ModelsLiteral
    /\ seed' \in Seeds
    /\ counts' = <<>>
    /\ uiOut' = PendingUi
    /\ figOut' = PendingFig
    /\ UNCHANGED <<call, shown, earlier>>

Next ==
    \/ \E line \in PlainLines \cup PaddedLines : TypeLine(line)
    \/ ClearText
    \/ Render_result_ui
    \/ Render_graph
    \/ Restart

Spec == Init /\ [][Next]_vars

-----------------------------------------------------------------------------
(* The core called directly: SpecCore, SpecDet *)

\* variant of compare_models that pops the entries it evaluates off the catalog
CallCompareModelsPopping(observed) ==
    /\ call.op = "none"
    /\ call' = [op |-> "compare_models", observed |-> observed,
                ratios |-> <<>>, result |-> compare_models(observed)]
    /\ models' = SelectSeq(models, LAMBDA m : Len(m.ratio) # Len(observed))
    /\ UNCHANGED <<seed, counts, uiOut, figOut, shown, earlier>>

\* variant of test_segregation that sorts the ratio list it was handed in
\* place, which is the catalog's own list
CallTestSegregationSorting(observed, ratios) ==
    /\ call.op = "none"
    /\ Len(observed) = Len(ratios)
    /\ call' = [op |-> "test_segregation", observed |-> observed,
                ratios |-> ratios,
                result |-> test_segregation(observed, ratios)]
    /\ models' = [i \in 1..Len(models) |->
                    IF models[i].ratio = ratios
                    THEN [name |-> models[i].name, ratio |-> SortDesc(ratios)]
                    ELSE models[i]]
    /\ UNCHANGED <<seed, counts, uiOut, figOut, shown, earlier>>

\* compare_models(observed)
CallCompareModels(observed) ==
    /\ call.op = "none"
    /\ call' = [op |-> "compare_models", observed |-> observed,
                ratios |-> <<>>, result |-> compare_models(observed)]
    /\ UNCHANGED <<models, seed, counts, uiOut, figOut, shown, earlier>>

\* test_segregation(observed, ratios)
CallTestSegregation(observed, ratios) ==
    /\ call.op = "none"
    /\ Len(observed) = Len(ratios)
    /\ call' = [op |-> "test_segregation", observed |-> observed,
                ratios |-> ratios,
                result |-> test_segregation(observed, ratios)]
    /\ UNCHANGED <<models, seed, counts, uiOut, figOut, shown, earlier>>

\* the caller is done with the result
Discard ==
    /\ call.op # "none"
    /\ call' = NoCall
    /\ UNCHANGED <<models, seed, counts, uiOut, figOut, shown, earlier>>

\* the caller is done with the result, and the history keeps it
Remember ==
    /\ call.op = "compare_models"
    /\ call' = NoCall
    /\ earlier' = [set |-> TRUE, observed |-> call.observed,
                   result |-> call.result]
    /\ UNCHANGED <<models, seed, counts, uiOut, figOut, shown>>

NextCore ==
    \/ \E o \in ObservedSeqs : CallCompareModels(o)
    \/ \E o \in ObservedSeqs, r \in RatioSeqs : CallTestSegregation(o, r)
    \/ Discard

SpecCore == Init /\ [][NextCore]_vars

NextDet ==
    \/ \E o \in ObservedSeqs : CallCompareModels(o)
    \/ Discard
    \/ Remember

SpecDet == Init /\ [][NextDet]_vars

-----------------------------------------------------------------------------
(* Properties *)

Fits    == "consistent with the best fit model"
NoModel == "No model explains"

\* p > 0.05 and p <= 0.05, as the specification's classifier words them
AboveAlpha(p)  == ~p.nan /\ ~StatAtLeast(p, CritValue(p.df))
AtMostAlpha(p) == ~p.nan /\ StatAtLeast(p, CritValue(p.df))

\* indices of the catalog models of n classes
Candidates(n) == {i \in 1..Len(models) : Len(models[i].ratio) = n}

\* the FitResult of catalog entry i for observed
FitOf(observed, i) ==
    WithModel(test_segregation(observed, models[i].ratio), models[i].name)

\* observed is a positive multiple of ratio, position by position
Proportional(observed, ratio) ==
    /\ Len(observed) = Len(ratio)
    /\ SumInt(observed) > 0
    /\ \A i, j \in 1..Len(ratio) : observed[i] * ratio[j] = observed[j] * ratio[i]

HasBars(fig) ==
    /\ fig.kind = "figure"
    /\ {fig.data[i].name : i \in 1..Len(fig.data)} = {"Observed", "Expected"}

\* C1: whenever a best-fit report is shown, its verdict is FITS exactly when
\* the selected result's p-value is above 0.05, and NO_MODEL_EXPLAINS exactly
\* when it is at most 0.05.
C1_VerdictFollowsThreshold ==
    uiOut.kind = "report" =>
        LET p == compare_models(observed_counts.counts).p_value
        IN  /\ (uiOut.text = Fits) <=> AboveAlpha(p)
            /\ (uiOut.text = NoModel) <=> AtMostAlpha(p)

\* C2: compare_models returns None when no catalog model has the observed
\* length; otherwise it returns the FitResult of a model of that length whose
\* p-value no other candidate of that length exceeds, the earliest such in
\* catalog order.
C2_BestIsEarliestMaximum ==
    call.op = "compare_models" =>
        LET cand    == Candidates(Len(call.observed))
            p(i)    == FitOf(call.observed, i).p_value
            maximal == {i \in cand : \A j \in cand : ~PGt(p(j), p(i))}
        IN  IF cand = {} THEN IsNone(call.result)
            ELSE /\ ~IsNone(call.result)
                 /\ Len(call.result.best_fit_ratio) = Len(call.observed)
                 /\ \E i \in maximal :
                        /\ \A j \in maximal : i <= j
                        /\ call.result = FitOf(call.observed, i)

C2_Witness ==
    /\ call.op = "compare_models"
    /\ SumInt(call.observed) > 0
    /\ \E i, j \in Candidates(Len(call.observed)) :
           /\ i < j
           /\ FitOf(call.observed, i).p_value = FitOf(call.observed, j).p_value
           /\ call.result = FitOf(call.observed, i)

\* C3: when the observed class count matches no catalog model, the report is
\* the informative message and neither handler fails.
C3_NoMatchIsHandled ==
    LET oc == observed_counts
    IN  (oc.counts # <<>> /\ Candidates(Len(oc.counts)) = {}) =>
            /\ uiOut # PendingUi =>
                   /\ uiOut.kind = "p"
                   /\ uiOut.text = "No model matches the length of the observed data"
            /\ figOut # PendingFig => figOut.kind = "figure"

\* C4: for an all-zero observed sequence of a length that has candidates,
\* selection returns no model and no p-value.
C4_ZeroTotalSelectsNothing ==
    (/\ call.op = "compare_models"
     /\ SumInt(call.observed) = 0
     /\ Candidates(Len(call.observed)) # {}) =>
        /\ "model" \notin DOMAIN call.result
        /\ "p_value" \notin DOMAIN call.result

\* C5: when the observed counts are exactly proportional to a catalog model's
\* ratio, that model is reported as best with statistic 0, a p-value no
\* candidate exceeds, expected equal to observed, and the verdict FITS.
C5_ExactFitIsBestAndFits ==
    uiOut # PendingUi =>
        LET oc     == observed_counts
            result == compare_models(oc.counts)
        IN  \A k \in 1..Len(models) :
                Proportional(oc.counts, models[k].ratio) =>
                    /\ result.model = models[k].name
                    /\ result.chi_square_stat = FromInt(0)
                    /\ \A j \in Candidates(Len(oc.counts)) :
                           ~PGt(FitOf(oc.counts, j).p_value, result.p_value)
                    /\ \A i \in 1..Len(oc.counts) :
                           result.expected[i] = FromInt(oc.counts[i])
                    /\ uiOut.kind = "report"
                    /\ uiOut.model = models[k].name
                    /\ uiOut.text = Fits

\* C6: the order in which observed_counts lists the categories is determined
\* by the set of labels: whenever the same labels were listed before, they
\* were listed in the same order.
C6_OrderIsLabelDetermined ==
    LET oc == observed_counts
    IN  shown.labels = Range(oc.uniques) => shown.order = oc.uniques

C9_CatalogUnchanged ==
    /\ models = ModelsLiteral
    /\ Len(models) = 10
    /\ \A i, j \in 1..Len(models) : models[i].name = models[j].name => i = j
    /\ \A i \in 1..Len(models) :
           \A k \in 1..Len(models[i].ratio) : models[i].ratio[k] \in Nat \ {0}

C9_Witness ==
    /\ call.op = "compare_models"
    /\ IsNone(call.result)
    /\ models = ModelsLiteral

====
